---- MODULE Spec2Model ----
(***************************************************************************)
(* Anonymous one-to-one chat server (socket.io): the shared matching       *)
(* queue, the partner registry, the consent flag, the report tally, the    *)
(* temporary bans and the pending media maps, with one action per          *)
(* inbound event handler.  Each handler runs to completion (Node's single  *)
(* threaded event loop), so a handler is one atomic step.                  *)
(* The repository holds two programs: src/unnamed/part_000 (set-based      *)
(* report tally, temporary bans) and src/server.js (next event, media maps *)
(* per connection).  proc says which one a run executes.                   *)
(***************************************************************************)
EXTENDS Integers, Sequences, FiniteSets, TLC

\* ------------------------------------------------------------------ bounds
MaxSockets   == 3        \* connections accepted in one run (ids are never reused)
MediaSockets == 2        \* the same, in the runs that exchange media
MaxTicks     == 1        \* clock advances (of one ban period) in one run

\* ------------------------------------------------------- program constants
REPORT_THRESHOLD == 10
BAN_MS == 24 * 60 * 60 * 1000
UA_MAX == 160

\* ------------------------------------------------------------------ values
Sockets == 1 .. MaxSockets
None == 0                       \* undefined / missing map entry (falsy)
NoIdent == <<>>                 \* identBySocket has no entry
NoOffer == [fromSocketId |-> None, dataUrl |-> <<>>]

\* Handshake inputs: the remote address ("" when the transport has none) and
\* the user-agent header.  A header is a text of `len` characters whose
\* characters are fixed by `text`: two headers with the same `text` agree on
\* their common prefix.  len = 0 is the missing header.
UA(text, len) == [text |-> text, len |-> len]
Handshakes == { <<"", UA("", 0)>>,
                <<"10.0.0.1", UA("Mozilla", 200)>>,
                <<"10.0.0.1", UA("Mozilla", 300)>> }
\* every connection comes from the same browser on the same machine
OneClient == { <<"10.0.0.1", UA("Mozilla", 200)>> }

\* Client payloads: a JavaScript value is its typeof and, for a string, its
\* characters (tokens).
Str(chars) == [type |-> "string", chars |-> chars]
NotAString == [type |-> "number", chars |-> <<>>]
IMG == <<"data:", "image/">>
VID == <<"data:", "video/">>
DataUrls == { Str(IMG \o <<"a">>), Str(IMG \o <<"b">>),
              Str(VID \o <<"a">>), Str(VID \o <<"b">>), NotAString }
\* one payload of each kind
OneOfEach == { Str(IMG \o <<"a">>), Str(VID \o <<"a">>), NotAString }
Messages == { Str(<<" ", "h", " ", "i", " ">>), Str(<<" ">>), NotAString }

VARIABLES
    proc,            \* the program the process runs, or "exited"
    nextId,          \* the id the transport gives the next connection
    conn,            \* socket id -> "none" | "open" | "closing" | "closed" | "refused"
    agreed,          \* socket.data.agreed: "undefined" | "false" | "true"
    queue,           \* let queue = []
    partners,        \* const partners = new Map()
    identBySocket,   \* const identBySocket = new Map()
    reportVotes,     \* targetIdent -> Set of reporterIdents
    tempBans,        \* ident -> banUntil timestamp (0: no entry)
    pendingPhotos,   \* receiverSocketId -> { fromSocketId, dataUrl }
                     \* (server.js: one such map per connection)
    pendingVideos,
    now,             \* Date.now()
    outbox,          \* the events the last handler emitted, in order
    last             \* the last inbound event handled

vars == <<proc, nextId, conn, agreed, queue, partners, identBySocket, reportVotes,
          tempBans, pendingPhotos, pendingVideos, now, outbox, last>>

\* the shared maps of the chat state (everything but transport and clock)
shared == <<queue, partners, identBySocket, reportVotes, tempBans,
            pendingPhotos, pendingVideos>>

\* ----------------------------------------------------------------- helpers
Range(s) == { s[i] : i \in 1 .. Len(s) }
Min(a, b) == IF a < b THEN a ELSE b

\* a filter that keeps every entry
Filter_keep(q, x) == q
\* a filter that empties the queue
Filter_all(q, x) == <<>>

RECURSIVE Filter(_, _)
\* queue.filter((id) => id !== x)
Filter(q, x) ==
    IF q = <<>> THEN <<>>
    ELSE IF Head(q) = x THEN Filter(Tail(q), x)
    ELSE <<Head(q)>> \o Filter(Tail(q), x)

StartsWith(s, p) == Len(s) >= Len(p) /\ SubSeq(s, 1, Len(p)) = p

\* a trim that strips the front only
Trim_leftOnly(s) == IF s # <<>> /\ Head(s) = " " THEN Tail(s) ELSE s

RECURSIVE TrimLeft(_)
TrimLeft(s) == IF s # <<>> /\ Head(s) = " " THEN TrimLeft(Tail(s)) ELSE s
RECURSIVE TrimRight(_)
TrimRight(s) ==
    IF s # <<>> /\ s[Len(s)] = " " THEN TrimRight(SubSeq(s, 1, Len(s) - 1)) ELSE s
\* String.prototype.trim
Trim(s) == TrimRight(TrimLeft(s))

\* ------------------------------------------------------------------ ident
getIP(address) == IF address = "" THEN "unknown" ELSE address
Slice(ua, n) == [text |-> ua.text, len |-> Min(ua.len, n)]
makeIdent(address, ua) == <<getIP(address), Slice(ua, UA_MAX)>>

LiveIdents == { makeIdent(h[1], h[2]) : h \in Handshakes }
\* identities of connections that are gone (other addresses)
HistIdent(k) == <<"198.51.100.0", [text |-> "Mozilla", len |-> k]>>
History(k) == { HistIdent(i) : i \in 1 .. k }
\* every identity a tally can hold
Idents == LiveIdents \cup History(REPORT_THRESHOLD - 1)

\* --------------------------------------------------------------- agreement
\* a check that only asks whether the flag has been initialised
isAgreed_initialised(s) == agreed[s] # "undefined"

\* isAgreed(socket): socket.data.agreed === true
isAgreed(s) == agreed[s] = "true"

\* ----------------------------------------------------------------- pairing
\* an unpair that deletes the partner's entry and keeps the caller's
unpair_partnerOnly(p, a) == IF p[a] # None THEN [p EXCEPT ![p[a]] = None] ELSE p
\* an unpair that forgets the partner's entry
unpair_oneSided(p, a) == [p EXCEPT ![a] = None]
\* a pair that records only the caller's side
pair_oneWay(p, a, b) == [p EXCEPT ![a] = b]

\* pair(a, b): partners.set(a, b); partners.set(b, a)
pair(p, a, b) == [[p EXCEPT ![a] = b] EXCEPT ![b] = a]
unpair(p, a) ==
    LET b == p[a]
        q == IF b # None THEN [p EXCEPT ![b] = None] ELSE p
    IN  [q EXCEPT ![a] = None]

\* --------------------------------------------------------------- emissions
Ev(to, ev) == [to |-> to, ev |-> ev, data |-> <<>>]
EvData(to, ev, data) == [to |-> to, ev |-> ev, data |-> data]
\* an emitTo that sends nothing
emitTo_silent(id, ev, data) == <<>>
\* emitTo(id, event, payload): nothing when id is falsy
emitTo(id, ev, data) == IF id = None THEN <<>> ELSE <<EvData(id, ev, data)>>

\* the inbound event a step handled: its name, its socket, its payload
NoArg == [type |-> "undefined", chars |-> <<>>]
HandledArg(op, s, arg) == last' = [op |-> op, id |-> s, arg |-> arg]
Handled(op, s) == HandledArg(op, s, NoArg)

\* ------------------------------------------------------------------- state
StartTime == 1                  \* Date.now() when the process starts

Init ==
    /\ proc = "part_000"
    /\ nextId = 1
    /\ conn = [s \in Sockets |-> "none"]
    /\ agreed = [s \in Sockets |-> "undefined"]
    /\ queue = <<>>
    /\ partners = [s \in Sockets |-> None]
    /\ identBySocket = [s \in Sockets |-> NoIdent]
    /\ reportVotes = [i \in LiveIdents |-> {}]
    /\ tempBans = [i \in LiveIdents |-> 0]
    /\ pendingPhotos = [s \in Sockets |-> NoOffer]
    /\ pendingVideos = [s \in Sockets |-> NoOffer]
    /\ now = StartTime
    /\ outbox = <<>>
    /\ last = [op |-> "start", id |-> None, arg |-> NoArg]

\* ------------------------------------------------------------- moderation
\* isTemporarilyBanned(ident): the answer, and the ban table after the call
\* a check that still refuses at the instant of expiry (<=)
banned_atExpiry(ident) == now <= tempBans[ident]
banned(ident) == now < tempBans[ident]
bansAfterCheck(ident) ==
    IF now < tempBans[ident] THEN tempBans
    ELSE IF tempBans[ident] # 0 THEN [tempBans EXCEPT ![ident] = 0]
    ELSE tempBans

\* ------------------------------------------------------------- connection
\* io.on("connection"): the transport hands over a fresh socket
connection(s, address, ua) ==
    LET ident == makeIdent(address, ua) IN
    /\ proc = "part_000"
    /\ s = nextId
    /\ nextId' = nextId + 1
    /\ identBySocket' = [identBySocket EXCEPT ![s] = ident]
    /\ tempBans' = bansAfterCheck(ident)
    /\ IF banned(ident)
       THEN /\ conn' = [conn EXCEPT ![s] = "refused"]
            /\ outbox' = <<Ev(s, "banned")>>
            /\ UNCHANGED agreed
       ELSE /\ conn' = [conn EXCEPT ![s] = "open"]
            /\ agreed' = [agreed EXCEPT ![s] = "false"]
            /\ outbox' = <<Ev(s, "need_agree")>>
    /\ Handled("connection", s)
    /\ UNCHANGED <<proc, queue, partners, reportVotes, pendingPhotos, pendingVideos,
                   now>>

\* socket.on("agree")
agree(s) ==
    /\ proc = "part_000"
    /\ conn[s] = "open"
    /\ agreed' = [agreed EXCEPT ![s] = "true"]
    /\ outbox' = <<Ev(s, "agreed_ok")>>
    /\ Handled("agree", s)
    /\ UNCHANGED <<proc, nextId, conn, shared, now>>

\* requireAgree() failed: the handler emits need_agree and returns
rejected(op, s) ==
    /\ outbox' = <<Ev(s, "need_agree")>>
    /\ Handled(op, s)
    /\ UNCHANGED <<proc, nextId, conn, agreed, shared, now>>

\* a handler that returns early without touching anything
ignored(op, s) ==
    /\ outbox' = <<>>
    /\ Handled(op, s)
    /\ UNCHANGED <<proc, nextId, conn, agreed, shared, now>>

\* ------------------------------------------------------------------- find
RECURSIVE matchLoop_peek(_, _, _)
\* a match loop that reads the chosen entry without removing it (queue[0])
matchLoop_peek(q, p, id) ==
    IF q = <<>> THEN [other |-> None, rest |-> <<>>]
    ELSE LET other == Head(q) IN
         IF other = None \/ other = id \/ p[other] # None
         THEN matchLoop_peek(Tail(q), p, id)
         ELSE [other |-> other, rest |-> q]

RECURSIVE matchLoop_inverted(_, _, _)
\* a match loop whose test is inverted: it accepts only the entries it
\* should skip
matchLoop_inverted(q, p, id) ==
    IF q = <<>> THEN [other |-> None, rest |-> <<>>]
    ELSE LET other == Head(q) IN
         IF other = None \/ other = id \/ p[other] # None
         THEN [other |-> other, rest |-> Tail(q)]
         ELSE matchLoop_inverted(Tail(q), p, id)

RECURSIVE matchLoop(_, _, _)
\* while (queue.length) { other = queue.shift(); skip falsy / self / paired }
matchLoop(q, p, id) ==
    IF q = <<>> THEN [other |-> None, rest |-> <<>>]
    ELSE LET other == Head(q) IN
         IF other = None \/ other = id \/ p[other] # None
         THEN matchLoop(Tail(q), p, id)
         ELSE [other |-> other, rest |-> Tail(q)]

\* a push that is lost
push_lost(q, id) == q

\* queue.push(id)
push(q, id) == Append(q, id)

\* a guard that never sees the caller in the queue
alreadyQueued_never(q, id) == FALSE

\* second guard of find: already waiting
alreadyQueued(q, id) == id \in Range(q)

\* socket.on("find")
find(s) ==
    /\ proc = "part_000"
    /\ conn[s] = "open"
    /\ IF ~isAgreed(s) THEN rejected("find", s)
       ELSE IF partners[s] # None THEN ignored("find", s)
       ELSE IF alreadyQueued(queue, s) THEN ignored("find", s)
       ELSE LET m == matchLoop(queue, partners, s) IN
            /\ IF m.other # None
               THEN /\ partners' = pair(partners, s, m.other)
                    /\ queue' = m.rest
                    /\ outbox' = <<Ev(s, "matched")>> \o emitTo(m.other, "matched", <<>>)
               ELSE /\ queue' = push(m.rest, s)
                    /\ outbox' = <<Ev(s, "searching")>>
                    /\ UNCHANGED partners
            /\ Handled("find", s)
            /\ UNCHANGED <<proc, nextId, conn, agreed, identBySocket, reportVotes, tempBans,
                           pendingPhotos, pendingVideos, now>>

\* ------------------------------------------------------------------- stop
\* socket.on("stop")
stop(s) ==
    /\ proc = "part_000"
    /\ conn[s] = "open"
    /\ IF ~isAgreed(s) THEN rejected("stop", s)
       ELSE LET p == partners[s] IN
            /\ partners' = IF p # None THEN unpair(partners, s) ELSE partners
            /\ queue' = Filter(queue, s)
            /\ outbox' = (IF p # None THEN emitTo(p, "partner_left", <<>>) ELSE <<>>)
                         \o <<Ev(s, "stopped")>>
            /\ Handled("stop", s)
            /\ UNCHANGED <<proc, nextId, conn, agreed, identBySocket, reportVotes, tempBans,
                           pendingPhotos, pendingVideos, now>>

\* ------------------------------------------------------- pending offers
\* a set that keeps an offer that is already there
setOffer_keepFirst(pending, receiverId, from, dataUrl) ==
    IF pending[receiverId] # NoOffer THEN pending
    ELSE [pending EXCEPT ![receiverId] = [fromSocketId |-> from, dataUrl |-> dataUrl.chars]]
\* pending.set(receiverId, { fromSocketId: socket.id, dataUrl })
setOffer(pending, receiverId, from, dataUrl) ==
    [pending EXCEPT ![receiverId] = [fromSocketId |-> from, dataUrl |-> dataUrl.chars]]
\* a delete that is lost
deleteOffer_lost(pending, id) == pending
\* pending.delete(id)
deleteOffer(pending, id) == [pending EXCEPT ![id] = NoOffer]
\* typeof dataUrl !== "string" || !dataUrl.startsWith(prefix)
badDataUrl(dataUrl, prefix) ==
    dataUrl.type # "string" \/ ~StartsWith(dataUrl.chars, prefix)

\* ---------------------------------------------------------------- message
\* socket.on("message")
message(s, msg) ==
    /\ proc = "part_000"
    /\ conn[s] = "open"
    /\ HandledArg("message", s, msg)
    /\ UNCHANGED <<proc, nextId, conn, agreed, shared, now>>
    /\ IF ~isAgreed(s) THEN outbox' = <<Ev(s, "need_agree")>>
       ELSE IF msg.type # "string" THEN outbox' = <<>>
       ELSE LET text == Trim(msg.chars)
                p == partners[s]
            IN  IF text = <<>> THEN outbox' = <<>>
                ELSE outbox' = emitTo(p, "message", text)

\* ----------------------------------------------------------------- report
\* voters.add(reporterIdent) on the target's tally
addVote(votes, targetIdent, reporterIdent) ==
    [votes EXCEPT ![targetIdent] = @ \cup {reporterIdent}]

\* Date.now() + BAN_MS
banUntil(t) == t + BAN_MS

\* an off-by-one threshold test (>)
thresholdReached_late(voters) == Cardinality(voters) > REPORT_THRESHOLD

\* if (voters.size >= REPORT_THRESHOLD)
thresholdReached(voters) == Cardinality(voters) >= REPORT_THRESHOLD

\* socket.on("report").  targetSocket.disconnect(true) runs the target's
\* disconnect handler either inside this handler or on a later turn of the
\* event loop, depending on the transport: both outcomes are modelled.
report(s, sync) ==
    /\ proc = "part_000"
    /\ conn[s] = "open"
    /\ IF ~isAgreed(s) THEN rejected("report", s)
       ELSE IF partners[s] = None THEN ignored("report", s)
       ELSE IF identBySocket[partners[s]] = NoIdent \/ identBySocket[s] = NoIdent
            THEN ignored("report", s)
       ELSE LET p == partners[s]
                targetIdent == identBySocket[p]
                reporterIdent == identBySocket[s]
                votes == addVote(reportVotes, targetIdent, reporterIdent)
                hit == thresholdReached(votes[targetIdent])
                online == conn[p] = "open"
                teardown == <<Ev(s, "report_received")>>
                            \o emitTo(p, "partner_left", <<>>)
                            \o <<Ev(s, "partner_left")>>
            IN
            /\ partners' = unpair(partners, s)
            /\ Handled("report", s)
            /\ UNCHANGED <<proc, nextId, agreed, now>>
            /\ IF ~hit
               THEN /\ reportVotes' = votes
                    /\ outbox' = teardown
                    /\ UNCHANGED <<conn, queue, identBySocket, tempBans,
                                   pendingPhotos, pendingVideos>>
               ELSE /\ reportVotes' = [votes EXCEPT ![targetIdent] = {}]
                    /\ tempBans' = [tempBans EXCEPT ![targetIdent] = banUntil(now)]
                    /\ outbox' = teardown \o emitTo(p, "reported_and_banned", <<>>)
                    /\ IF online /\ sync
                       THEN \* the target's disconnect handler, run in place
                            /\ conn' = [conn EXCEPT ![p] = "closed"]
                            /\ queue' = Filter(queue, p)
                            /\ pendingPhotos' = deleteOffer(pendingPhotos, p)
                            /\ pendingVideos' = deleteOffer(pendingVideos, p)
                            /\ identBySocket' = [identBySocket EXCEPT ![p] = NoIdent]
                       ELSE /\ conn' = IF online THEN [conn EXCEPT ![p] = "closing"]
                                       ELSE conn
                            /\ UNCHANGED <<queue, identBySocket, pendingPhotos,
                                           pendingVideos>>

\* ------------------------------------------------------------ media flows
\* socket.on("photo_offer")
photo_offer(s, dataUrl) ==
    /\ proc = "part_000"
    /\ conn[s] = "open"
    /\ HandledArg("photo_offer", s, dataUrl)
    /\ UNCHANGED <<proc, nextId, conn, agreed, queue, partners, identBySocket,
                   reportVotes, tempBans, pendingVideos, now>>
    /\ IF ~isAgreed(s)
       THEN outbox' = <<Ev(s, "need_agree")>> /\ UNCHANGED pendingPhotos
       ELSE IF partners[s] = None \/ badDataUrl(dataUrl, IMG)
       THEN outbox' = <<>> /\ UNCHANGED pendingPhotos
       ELSE LET receiverId == partners[s] IN
            /\ pendingPhotos' = setOffer(pendingPhotos, receiverId, s, dataUrl)
            /\ outbox' = emitTo(receiverId, "photo_request", <<>>) \o <<Ev(s, "photo_sent")>>

\* socket.on("photo_accept")
photo_accept(s) ==
    /\ proc = "part_000"
    /\ conn[s] = "open"
    /\ IF ~isAgreed(s) THEN rejected("photo_accept", s)
       ELSE IF pendingPhotos[s] = NoOffer THEN ignored("photo_accept", s)
       ELSE LET req == pendingPhotos[s] IN
            /\ pendingPhotos' = deleteOffer(pendingPhotos, s)
            /\ outbox' = <<EvData(s, "photo_deliver", req.dataUrl)>>
                         \o emitTo(req.fromSocketId, "message", <<"Photo accepted">>)
            /\ Handled("photo_accept", s)
            /\ UNCHANGED <<proc, nextId, conn, agreed, queue, partners, identBySocket,
                           reportVotes, tempBans, pendingVideos, now>>

\* socket.on("photo_decline")
photo_decline(s) ==
    /\ proc = "part_000"
    /\ conn[s] = "open"
    /\ IF ~isAgreed(s) THEN rejected("photo_decline", s)
       ELSE IF pendingPhotos[s] = NoOffer THEN ignored("photo_decline", s)
       ELSE LET req == pendingPhotos[s] IN
            /\ pendingPhotos' = deleteOffer(pendingPhotos, s)
            /\ outbox' = emitTo(req.fromSocketId, "message", <<"Photo declined">>)
            /\ Handled("photo_decline", s)
            /\ UNCHANGED <<proc, nextId, conn, agreed, queue, partners, identBySocket,
                           reportVotes, tempBans, pendingVideos, now>>

\* socket.on("video_offer")
video_offer(s, dataUrl) ==
    /\ proc = "part_000"
    /\ conn[s] = "open"
    /\ HandledArg("video_offer", s, dataUrl)
    /\ UNCHANGED <<proc, nextId, conn, agreed, queue, partners, identBySocket,
                   reportVotes, tempBans, pendingPhotos, now>>
    /\ IF ~isAgreed(s)
       THEN outbox' = <<Ev(s, "need_agree")>> /\ UNCHANGED pendingVideos
       ELSE IF partners[s] = None \/ badDataUrl(dataUrl, VID)
       THEN outbox' = <<>> /\ UNCHANGED pendingVideos
       ELSE LET receiverId == partners[s] IN
            /\ pendingVideos' = setOffer(pendingVideos, receiverId, s, dataUrl)
            /\ outbox' = emitTo(receiverId, "video_request", <<>>) \o <<Ev(s, "video_sent")>>

\* socket.on("video_accept")
video_accept(s) ==
    /\ proc = "part_000"
    /\ conn[s] = "open"
    /\ IF ~isAgreed(s) THEN rejected("video_accept", s)
       ELSE IF pendingVideos[s] = NoOffer THEN ignored("video_accept", s)
       ELSE LET req == pendingVideos[s] IN
            /\ pendingVideos' = deleteOffer(pendingVideos, s)
            /\ outbox' = <<EvData(s, "video_deliver", req.dataUrl)>>
                         \o emitTo(req.fromSocketId, "message", <<"Video accepted">>)
            /\ Handled("video_accept", s)
            /\ UNCHANGED <<proc, nextId, conn, agreed, queue, partners, identBySocket,
                           reportVotes, tempBans, pendingPhotos, now>>

\* socket.on("video_decline")
video_decline(s) ==
    /\ proc = "part_000"
    /\ conn[s] = "open"
    /\ IF ~isAgreed(s) THEN rejected("video_decline", s)
       ELSE IF pendingVideos[s] = NoOffer THEN ignored("video_decline", s)
       ELSE LET req == pendingVideos[s] IN
            /\ pendingVideos' = deleteOffer(pendingVideos, s)
            /\ outbox' = emitTo(req.fromSocketId, "message", <<"Video declined">>)
            /\ Handled("video_decline", s)
            /\ UNCHANGED <<proc, nextId, conn, agreed, queue, partners, identBySocket,
                           reportVotes, tempBans, pendingPhotos, now>>

\* ------------------------------------------------------------- disconnect
\* socket.on("disconnect"): the client went away, or the server closed it
disconnect(s) ==
    /\ proc = "part_000"
    /\ conn[s] \in {"open", "closing"}
    /\ LET p == partners[s] IN
       /\ partners' = IF p # None THEN unpair(partners, s) ELSE partners
       /\ outbox' = IF p # None THEN emitTo(p, "partner_left", <<>>) ELSE <<>>
    /\ queue' = Filter(queue, s)
    /\ pendingPhotos' = deleteOffer(pendingPhotos, s)
    /\ pendingVideos' = deleteOffer(pendingVideos, s)
    /\ identBySocket' = [identBySocket EXCEPT ![s] = NoIdent]
    /\ conn' = [conn EXCEPT ![s] = "closed"]
    /\ Handled("disconnect", s)
    /\ UNCHANGED <<proc, nextId, agreed, reportVotes, tempBans, now>>

\* ------------------------------------------------------------------ clock
\* time passes between two events: one ban period at a time
Tick ==
    /\ proc = "part_000"
    /\ now < StartTime + MaxTicks * BAN_MS
    /\ now' = now + BAN_MS
    /\ outbox' = <<>>
    /\ Handled("tick", None)
    /\ UNCHANGED <<proc, nextId, conn, agreed, shared>>

\* ================================================================ server.js
\* The second program of the repository.  It keeps queue, partners and
\* identBySocket like the first; its pending-media maps are created inside
\* the connection callback, one pair per connection, so pendingPhotos[s] and
\* pendingVideos[s] are here the maps owned by the handlers of connection s.
\* It has no report tally and no ban table: reportVotes and tempBans keep
\* their initial value.

\* let bannedIdents = new Set(): nothing in server.js ever adds to it
bannedIdents == {}

\* the maps each connection callback creates: nothing pending
NoOffers == [r \in Sockets |-> NoOffer]

\* io.on("connection") of server.js
server_connection(s, address, ua) ==
    LET ident == makeIdent(address, ua) IN
    /\ proc = "server.js"
    /\ s = nextId
    /\ nextId' = nextId + 1
    /\ identBySocket' = [identBySocket EXCEPT ![s] = ident]
    /\ IF ident \in bannedIdents
       THEN /\ conn' = [conn EXCEPT ![s] = "refused"]
            /\ outbox' = <<Ev(s, "banned")>>
            /\ UNCHANGED <<agreed, pendingPhotos, pendingVideos>>
       ELSE /\ conn' = [conn EXCEPT ![s] = "open"]
            /\ agreed' = [agreed EXCEPT ![s] = "false"]
            /\ outbox' = <<Ev(s, "need_agree")>>
            /\ pendingPhotos' = [pendingPhotos EXCEPT ![s] = NoOffers]
            /\ pendingVideos' = [pendingVideos EXCEPT ![s] = NoOffers]
    /\ Handled("connection", s)
    /\ UNCHANGED <<proc, queue, partners, reportVotes, tempBans, now>>

\* socket.on("agree") of server.js
server_agree(s) ==
    /\ proc = "server.js"
    /\ conn[s] = "open"
    /\ agreed' = [agreed EXCEPT ![s] = "true"]
    /\ outbox' = <<Ev(s, "agreed_ok")>>
    /\ Handled("agree", s)
    /\ UNCHANGED <<proc, nextId, conn, shared, now>>

RECURSIVE server_matchLoop(_, _, _)
\* while (queue.length) { other = queue.shift(); skip self / paired }
server_matchLoop(q, p, id) ==
    IF q = <<>> THEN [other |-> None, rest |-> <<>>]
    ELSE LET other == Head(q) IN
         IF other = id \/ p[other] # None
         THEN server_matchLoop(Tail(q), p, id)
         ELSE [other |-> other, rest |-> Tail(q)]

\* socket.on("find") of server.js
server_find(s) ==
    /\ proc = "server.js"
    /\ conn[s] = "open"
    /\ IF ~isAgreed(s) THEN rejected("find", s)
       ELSE IF partners[s] # None \/ s \in Range(queue) THEN ignored("find", s)
       ELSE LET m == server_matchLoop(queue, partners, s) IN
            /\ IF m.other # None
               THEN /\ partners' = pair(partners, s, m.other)
                    /\ queue' = m.rest
                    /\ outbox' = <<Ev(s, "matched"), Ev(m.other, "matched")>>
               ELSE /\ queue' = Append(m.rest, s)
                    /\ outbox' = <<Ev(s, "searching")>>
                    /\ UNCHANGED partners
            /\ Handled("find", s)
            /\ UNCHANGED <<proc, nextId, conn, agreed, identBySocket, reportVotes, tempBans,
                           pendingPhotos, pendingVideos, now>>

\* socket.on("next") of server.js: leaves the pairing and the queue, then
\* sends the client a find event; the find handler is not run
server_next(s) ==
    /\ proc = "server.js"
    /\ conn[s] = "open"
    /\ IF ~isAgreed(s) THEN rejected("next", s)
       ELSE LET p == partners[s] IN
            /\ partners' = IF p # None THEN unpair(partners, s) ELSE partners
            /\ queue' = Filter(queue, s)
            /\ outbox' = (IF p # None THEN <<Ev(p, "partner_left")>> ELSE <<>>)
                         \o <<Ev(s, "searching"), Ev(s, "find")>>
            /\ Handled("next", s)
            /\ UNCHANGED <<proc, nextId, conn, agreed, identBySocket, reportVotes, tempBans,
                           pendingPhotos, pendingVideos, now>>

\* socket.on("stop") of server.js
server_stop(s) ==
    /\ proc = "server.js"
    /\ conn[s] = "open"
    /\ IF ~isAgreed(s) THEN rejected("stop", s)
       ELSE LET p == partners[s] IN
            /\ partners' = IF p # None THEN unpair(partners, s) ELSE partners
            /\ queue' = Filter(queue, s)
            /\ outbox' = (IF p # None THEN <<Ev(p, "partner_left")>> ELSE <<>>)
                         \o <<Ev(s, "stopped")>>
            /\ Handled("stop", s)
            /\ UNCHANGED <<proc, nextId, conn, agreed, identBySocket, reportVotes, tempBans,
                           pendingPhotos, pendingVideos, now>>

\* socket.on("message") of server.js
server_message(s, msg) ==
    /\ proc = "server.js"
    /\ conn[s] = "open"
    /\ HandledArg("message", s, msg)
    /\ UNCHANGED <<proc, nextId, conn, agreed, shared, now>>
    /\ IF ~isAgreed(s) THEN outbox' = <<Ev(s, "need_agree")>>
       ELSE IF msg.type # "string" THEN outbox' = <<>>
       ELSE LET text == Trim(msg.chars)
                p == partners[s]
            IN  IF text = <<>> \/ p = None THEN outbox' = <<>>
                ELSE outbox' = <<EvData(p, "message", text)>>

\* socket.on("report") of server.js.  reportCounts is declared nowhere: the
\* handler throws a ReferenceError as soon as it has found the partner's
\* identity.  The exception leaves the listener; fatal says whether it ends
\* the process (no uncaughtException handler is installed) or is swallowed
\* by the transport.
server_report(s, fatal) ==
    /\ proc = "server.js"
    /\ conn[s] = "open"
    /\ IF ~isAgreed(s) THEN rejected("report", s)
       ELSE IF partners[s] = None THEN ignored("report", s)
       ELSE IF identBySocket[partners[s]] = NoIdent THEN ignored("report", s)
       ELSE /\ proc' = IF fatal THEN "exited" ELSE proc
            /\ outbox' = <<>>
            /\ Handled("report", s)
            /\ UNCHANGED <<nextId, conn, agreed, shared, now>>

\* socket.on("photo_offer") of server.js: the offer goes into the sender's map
server_photo_offer(s, dataUrl) ==
    /\ proc = "server.js"
    /\ conn[s] = "open"
    /\ HandledArg("photo_offer", s, dataUrl)
    /\ UNCHANGED <<proc, nextId, conn, agreed, queue, partners, identBySocket,
                   reportVotes, tempBans, pendingVideos, now>>
    /\ IF ~isAgreed(s)
       THEN outbox' = <<Ev(s, "need_agree")>> /\ UNCHANGED pendingPhotos
       ELSE IF partners[s] = None \/ badDataUrl(dataUrl, IMG)
       THEN outbox' = <<>> /\ UNCHANGED pendingPhotos
       ELSE LET p == partners[s] IN
            /\ pendingPhotos' = [pendingPhotos EXCEPT ![s] = setOffer(@, p, s, dataUrl)]
            /\ outbox' = <<Ev(p, "photo_request"), Ev(s, "photo_sent")>>

\* socket.on("photo_accept") of server.js: looks in the caller's own map
server_photo_accept(s) ==
    /\ proc = "server.js"
    /\ conn[s] = "open"
    /\ IF ~isAgreed(s) THEN rejected("photo_accept", s)
       ELSE IF pendingPhotos[s][s] = NoOffer THEN ignored("photo_accept", s)
       ELSE LET req == pendingPhotos[s][s] IN
            /\ pendingPhotos' = [pendingPhotos EXCEPT ![s] = deleteOffer(@, s)]
            /\ outbox' = <<EvData(s, "photo_deliver", req.dataUrl)>>
            /\ Handled("photo_accept", s)
            /\ UNCHANGED <<proc, nextId, conn, agreed, queue, partners, identBySocket,
                           reportVotes, tempBans, pendingVideos, now>>

\* socket.on("photo_decline") of server.js
server_photo_decline(s) ==
    /\ proc = "server.js"
    /\ conn[s] = "open"
    /\ IF ~isAgreed(s) THEN rejected("photo_decline", s)
       ELSE IF pendingPhotos[s][s] = NoOffer THEN ignored("photo_decline", s)
       ELSE /\ pendingPhotos' = [pendingPhotos EXCEPT ![s] = deleteOffer(@, s)]
            /\ outbox' = <<Ev(s, "stopped")>>
            /\ Handled("photo_decline", s)
            /\ UNCHANGED <<proc, nextId, conn, agreed, queue, partners, identBySocket,
                           reportVotes, tempBans, pendingVideos, now>>

\* requireAgree() failed in both listeners of an event registered twice
rejectedTwice(op, s) ==
    /\ outbox' = <<Ev(s, "need_agree"), Ev(s, "need_agree")>>
    /\ Handled(op, s)
    /\ UNCHANGED <<proc, nextId, conn, agreed, shared, now>>

\* socket.on("video_offer") of server.js, registered twice with the same
\* body: both listeners run, one after the other
server_video_offer(s, dataUrl) ==
    /\ proc = "server.js"
    /\ conn[s] = "open"
    /\ HandledArg("video_offer", s, dataUrl)
    /\ UNCHANGED <<proc, nextId, conn, agreed, queue, partners, identBySocket,
                   reportVotes, tempBans, pendingPhotos, now>>
    /\ IF ~isAgreed(s)
       THEN outbox' = <<Ev(s, "need_agree"), Ev(s, "need_agree")>> /\ UNCHANGED pendingVideos
       ELSE IF partners[s] = None \/ badDataUrl(dataUrl, VID)
       THEN outbox' = <<>> /\ UNCHANGED pendingVideos
       ELSE LET p == partners[s] IN
            /\ pendingVideos' = [pendingVideos EXCEPT
                                    ![s] = setOffer(setOffer(@, p, s, dataUrl), p, s, dataUrl)]
            /\ outbox' = <<Ev(p, "video_request"), Ev(s, "video_sent"),
                           Ev(p, "video_request"), Ev(s, "video_sent")>>

\* socket.on("video_accept") of server.js, registered twice: the first
\* listener delivers and deletes, the second then finds nothing
server_video_accept(s) ==
    /\ proc = "server.js"
    /\ conn[s] = "open"
    /\ IF ~isAgreed(s) THEN rejectedTwice("video_accept", s)
       ELSE IF pendingVideos[s][s] = NoOffer THEN ignored("video_accept", s)
       ELSE LET req == pendingVideos[s][s] IN
            /\ pendingVideos' = [pendingVideos EXCEPT ![s] = deleteOffer(@, s)]
            /\ outbox' = <<EvData(s, "video_deliver", req.dataUrl)>>
            /\ Handled("video_accept", s)
            /\ UNCHANGED <<proc, nextId, conn, agreed, queue, partners, identBySocket,
                           reportVotes, tempBans, pendingPhotos, now>>

\* socket.on("video_decline") of server.js, registered twice: the first
\* listener answers stopped when there is an offer, the second only deletes
server_video_decline(s) ==
    /\ proc = "server.js"
    /\ conn[s] = "open"
    /\ IF ~isAgreed(s) THEN rejectedTwice("video_decline", s)
       ELSE /\ pendingVideos' = [pendingVideos EXCEPT ![s] = deleteOffer(@, s)]
            /\ outbox' = IF pendingVideos[s][s] = NoOffer THEN <<>>
                         ELSE <<Ev(s, "stopped")>>
            /\ Handled("video_decline", s)
            /\ UNCHANGED <<proc, nextId, conn, agreed, queue, partners, identBySocket,
                           reportVotes, tempBans, pendingPhotos, now>>

\* socket.on("disconnect") of server.js
server_disconnect(s) ==
    /\ proc = "server.js"
    /\ conn[s] = "open"
    /\ LET p == partners[s] IN
       /\ partners' = IF p # None THEN unpair(partners, s) ELSE partners
       /\ outbox' = IF p # None THEN <<Ev(p, "partner_left")>> ELSE <<>>
    /\ queue' = Filter(queue, s)
    /\ pendingPhotos' = [pendingPhotos EXCEPT ![s] = deleteOffer(@, s)]
    /\ pendingVideos' = [pendingVideos EXCEPT ![s] = deleteOffer(@, s)]
    /\ identBySocket' = [identBySocket EXCEPT ![s] = NoIdent]
    /\ conn' = [conn EXCEPT ![s] = "closed"]
    /\ Handled("disconnect", s)
    /\ UNCHANGED <<proc, nextId, agreed, reportVotes, tempBans, now>>

\* ---------------------------------------------------------- specifications
\* the handlers of the matching core, for the first n connections, which
\* come with the handshakes H
CoreStep(n, H) ==
    \/ \E s \in 1 .. n, h \in H : connection(s, h[1], h[2])
    \/ \E s \in Sockets : agree(s)
    \/ \E s \in Sockets : find(s)
    \/ \E s \in Sockets : stop(s)
    \/ \E s \in Sockets, msg \in Messages : message(s, msg)
    \/ \E s \in Sockets, sync \in BOOLEAN : report(s, sync)
    \/ \E s \in Sockets : disconnect(s)

\* the handlers of the two media flows, with the payloads D
MediaStep(D) ==
    \/ \E s \in Sockets, d \in D : photo_offer(s, d)
    \/ \E s \in Sockets : photo_accept(s)
    \/ \E s \in Sockets : photo_decline(s)
    \/ \E s \in Sockets, d \in D : video_offer(s, d)
    \/ \E s \in Sockets : video_accept(s)
    \/ \E s \in Sockets : video_decline(s)

\* A process that has been up for a while: the connections of earlier runs
\* are gone, and left a tally of 8 or 9 distinct reporters against one identity.
InitReport ==
    /\ proc = "part_000"
    /\ nextId = 1
    /\ conn = [s \in Sockets |-> "none"]
    /\ agreed = [s \in Sockets |-> "undefined"]
    /\ queue = <<>>
    /\ partners = [s \in Sockets |-> None]
    /\ identBySocket = [s \in Sockets |-> NoIdent]
    /\ \E t \in LiveIdents, k \in {REPORT_THRESHOLD - 2, REPORT_THRESHOLD - 1} :
           reportVotes = [i \in LiveIdents |-> IF i = t THEN History(k) ELSE {}]
    /\ tempBans = [i \in LiveIdents |-> 0]
    /\ pendingPhotos = [s \in Sockets |-> NoOffer]
    /\ pendingVideos = [s \in Sockets |-> NoOffer]
    /\ now = StartTime
    /\ outbox = <<>>
    /\ last = [op |-> "start", id |-> None, arg |-> NoArg]

\* matching, messages and reports from a fresh process
Next == CoreStep(MaxSockets, OneClient)
Spec == Init /\ [][Next]_vars

\* every handler, media included, from a fresh process
NextMedia == CoreStep(MediaSockets, OneClient) \/ MediaStep(DataUrls)
SpecMedia == Init /\ [][NextMedia]_vars

\* reports and bans over time, from a process with a report history
NextReport == CoreStep(MaxSockets, Handshakes) \/ Tick
SpecReport == InitReport /\ [][NextReport]_vars

\* reports, bans and media together
NextBan == CoreStep(MediaSockets, Handshakes) \/ MediaStep(OneOfEach) \/ Tick
SpecBan == InitReport /\ [][NextBan]_vars

\* the state of server.js after construction
InitServer ==
    /\ proc = "server.js"
    /\ nextId = 1
    /\ conn = [s \in Sockets |-> "none"]
    /\ agreed = [s \in Sockets |-> "undefined"]
    /\ queue = <<>>
    /\ partners = [s \in Sockets |-> None]
    /\ identBySocket = [s \in Sockets |-> NoIdent]
    /\ reportVotes = [i \in LiveIdents |-> {}]
    /\ tempBans = [i \in LiveIdents |-> 0]
    /\ pendingPhotos = [s \in Sockets |-> NoOffers]
    /\ pendingVideos = [s \in Sockets |-> NoOffers]
    /\ now = StartTime
    /\ outbox = <<>>
    /\ last = [op |-> "start", id |-> None, arg |-> NoArg]

\* the handlers of server.js's matching core, for the first n connections
ServerCoreStep(n, H) ==
    \/ \E s \in 1 .. n, h \in H : server_connection(s, h[1], h[2])
    \/ \E s \in Sockets : server_agree(s)
    \/ \E s \in Sockets : server_find(s)
    \/ \E s \in Sockets : server_next(s)
    \/ \E s \in Sockets : server_stop(s)
    \/ \E s \in Sockets, msg \in Messages : server_message(s, msg)
    \/ \E s \in Sockets, fatal \in BOOLEAN : server_report(s, fatal)
    \/ \E s \in Sockets : server_disconnect(s)

\* the handlers of server.js's two media flows
ServerMediaStep ==
    \/ \E s \in Sockets, d \in DataUrls : server_photo_offer(s, d)
    \/ \E s \in Sockets : server_photo_accept(s)
    \/ \E s \in Sockets : server_photo_decline(s)
    \/ \E s \in Sockets, d \in DataUrls : server_video_offer(s, d)
    \/ \E s \in Sockets : server_video_accept(s)
    \/ \E s \in Sockets : server_video_decline(s)

\* either program, matching core only, fresh start
NextBoth ==
    CoreStep(MaxSockets, OneClient) \/ ServerCoreStep(MaxSockets, OneClient)
SpecBoth == (Init \/ InitServer) /\ [][NextBoth]_vars

\* either program, every handler, fresh start
NextBothMedia ==
    \/ CoreStep(MediaSockets, OneClient) \/ MediaStep(DataUrls)
    \/ ServerCoreStep(MediaSockets, OneClient) \/ ServerMediaStep
SpecBothMedia == (Init \/ InitServer) /\ [][NextBothMedia]_vars

\* ------------------------------------------------------------------ claims
QueuedIn(q, s) == s \in Range(q)
PairedIn(p, s) == p[s] # None
InQueue(s) == QueuedIn(queue, s)
Paired(s) == PairedIn(partners, s)
Consented(s) == agreed[s] = "true"
\* how many times event ev was sent to connection `to` by the last handler
Sent(box, to, ev) == Cardinality({ i \in 1 .. Len(box) : box[i].to = to /\ box[i].ev = ev })

\* C1: in every reachable state the partner registry is symmetric and
\* irreflexive: partners[a] = b exactly when partners[b] = a, and nobody is
\* its own partner.
C1_PartnersSymmetric ==
    \A a \in Sockets :
        Paired(a) => /\ partners[a] \in Sockets
                     /\ partners[a] # a
                     /\ partners[partners[a]] = a
\* two connections are paired while a third one exists, after a pairing was
\* torn down
C1_Witness ==
    /\ \E a, b \in Sockets : a # b /\ partners[a] = b /\ partners[b] = a
    /\ last.op = "find"
    /\ \E c \in Sockets : conn[c] = "closed"

\* C2: in every reachable state the queue holds each connection id at most
\* once, and no queued id is a key of the partner registry.
C2_QueueExclusive ==
    /\ \A i, j \in 1 .. Len(queue) : i # j => queue[i] # queue[j]
    /\ \A i \in 1 .. Len(queue) : ~Paired(queue[i])
\* one connection waits while two others are paired
C2_Witness ==
    /\ queue # <<>>
    /\ \E a \in Sockets : Paired(a)

\* C3: a find by a consented connection leaves it in exactly one of
\* {paired, queued}; and over agree and find steps no connection that is
\* queued or paired leaves that set.
C3_FindPlacesCaller ==
    [][ /\ (last'.op = "find" /\ agreed'[last'.id] = "true")
            => (QueuedIn(queue', last'.id) # PairedIn(partners', last'.id))
        /\ (last'.op \in {"agree", "find"})
            => \A s \in Sockets :
                   (InQueue(s) \/ Paired(s))
                       => (QueuedIn(queue', s) # PairedIn(partners', s)) ]_vars
\* three consented connections have called find: two are paired, the last
\* caller waits
C3_Witness ==
    /\ last.op = "find"
    /\ InQueue(last.id)
    /\ \E a \in Sockets : Paired(a)
    /\ \A s \in Sockets : Consented(s)

\* C4: a find repeated by a consented connection with nothing in between, and
\* any find by a consented connection that is still queued or paired, change
\* no shared map and emit nothing.
C4_FindIdempotent ==
    [][ /\ ( /\ last.op = "find" /\ last'.op = "find" /\ last'.id = last.id
             /\ Consented(last.id) )
            => (UNCHANGED shared /\ outbox' = <<>>)
        /\ ( /\ last'.op = "find" /\ Consented(last'.id)
             /\ (InQueue(last'.id) \/ Paired(last'.id)) )
            => (UNCHANGED shared /\ outbox' = <<>>) ]_vars
\* a queued, consented connection has just called find again
C4_Witness ==
    /\ last.op = "find"
    /\ Consented(last.id)
    /\ InQueue(last.id)
    /\ outbox = <<>>

\* C5: a consented stop and a disconnect leave the caller neither queued nor
\* paired; a partner it had is unpaired too and is sent partner_left exactly
\* once; nobody else is sent partner_left; and when the caller was neither
\* paired nor queued the queue and the registry do not change.
C5_Teardown ==
    [][ ( /\ last'.op \in {"stop", "disconnect"}
          /\ last'.op = "stop" => Consented(last'.id) )
        => LET id == last'.id
               p == partners[id]
           IN  /\ ~QueuedIn(queue', id)
               /\ ~PairedIn(partners', id)
               /\ p # None => partners'[p] = None
               /\ \A x \in Sockets :
                      Sent(outbox', x, "partner_left") = IF x = p THEN 1 ELSE 0
               /\ (p = None /\ ~InQueue(id)) => UNCHANGED <<queue, partners>> ]_vars
\* a disconnect has just torn down a pairing and told the partner
C5_Witness ==
    /\ last.op = "disconnect"
    /\ \E x \in Sockets : outbox = <<Ev(x, "partner_left")>>

\* C6: after a consented stop(id) and after disconnect(id) neither pending
\* map holds an offer keyed by id.  (The stop handler never touches the
\* pending maps, so this fails after stop.)
C6_NoOfferAfterTeardown ==
    ( /\ last.op \in {"stop", "disconnect"}
      /\ last.op = "stop" => Consented(last.id) )
    => /\ pendingPhotos[last.id] = NoOffer
       /\ pendingVideos[last.id] = NoOffer

\* C7: an accepted connection starts with agreed = false; while it has not
\* agreed, every find, stop, next, message, report and media offer, accept or
\* decline it sends is answered with need_agree to the caller and nothing else,
\* and changes none of the queue, the partner registry, the report tally, the
\* ban table and the pending-media maps; consent, once given, stays for as
\* long as the connection is open.
GatedOps == {"find", "stop", "next", "message", "report",
             "photo_offer", "photo_accept", "photo_decline",
             "video_offer", "video_accept", "video_decline"}
C7_ConsentGate ==
    [][ /\ (last'.op = "connection" /\ conn'[last'.id] = "open"
            => agreed'[last'.id] = "false")
        /\ (last'.op \in GatedOps /\ ~Consented(last'.id)
            => /\ UNCHANGED <<queue, partners, reportVotes, tempBans,
                              pendingPhotos, pendingVideos>>
               /\ Len(outbox') >= 1
               /\ \A i \in 1 .. Len(outbox') : outbox'[i] = Ev(last'.id, "need_agree"))
        /\ \A s \in Sockets :
              Consented(s) /\ conn'[s] = "open" => agreed'[s] = "true" ]_vars
\* a connection that has not agreed asked for next while another was waiting
\* in the queue, and was answered with need_agree
C7_Witness ==
    /\ last.op = "next"
    /\ agreed[last.id] = "false"
    /\ outbox = <<Ev(last.id, "need_agree")>>
    /\ queue # <<>>
    /\ \E s \in Sockets : agreed[s] = "true"

\* C8: a message from a consented connection is sent, trimmed, to its partner
\* of that moment and to nobody else; without a partner, or with a payload
\* that is no string or blank, nothing is sent; in every case no shared map
\* changes.
TrimmedText(msg) ==
    IF msg = Str(<<" ", "h", " ", "i", " ">>) THEN <<"h", " ", "i">> ELSE <<>>
C8_MessageToPartnerOnly ==
    [][ (last'.op = "message" /\ Consented(last'.id))
        => LET id == last'.id
               text == TrimmedText(last'.arg)
           IN  /\ UNCHANGED shared
               /\ outbox' = IF text # <<>> /\ Paired(id)
                            THEN <<[to |-> partners[id], ev |-> "message", data |-> text]>>
                            ELSE <<>> ]_vars
\* a message has just been relayed to the partner while the sender holds a
\* pending photo offer
C8_Witness ==
    /\ last.op = "message"
    /\ Paired(last.id)
    /\ outbox = <<[to |-> partners[last.id], ev |-> "message", data |-> <<"h", " ", "i">>]>>
    /\ pendingPhotos[last.id] # NoOffer

\* C9: a report accepted from reporter identity r against target identity t
\* bans t exactly when r brings t's tally to 10 distinct reporters: then the
\* ban is set and the tally cleared; otherwise r is recorded (once) and no ban
\* changes.  No other step adds a vote or a ban, and a tally never holds 10.
C9_BanAtTenDistinct ==
    [][ /\ \A i \in LiveIdents : Cardinality(reportVotes'[i]) < 10
        /\ IF /\ last'.op = "report" /\ Consented(last'.id) /\ Paired(last'.id)
              /\ identBySocket[last'.id] # NoIdent
              /\ identBySocket[partners[last'.id]] # NoIdent
           THEN LET r == identBySocket[last'.id]
                    t == identBySocket[partners[last'.id]]
                    voters == reportVotes[t] \cup {r}
                IN  /\ \A i \in LiveIdents \ {t} :
                           reportVotes'[i] = reportVotes[i] /\ tempBans'[i] = tempBans[i]
                    /\ IF Cardinality(voters) = 10
                       THEN reportVotes'[t] = {} /\ tempBans'[t] = now + BAN_MS
                       ELSE reportVotes'[t] = voters /\ tempBans'[t] = tempBans[t]
           ELSE /\ reportVotes' = reportVotes
                /\ \A i \in LiveIdents : tempBans'[i] \in {0, tempBans[i]} ]_vars
\* the tenth distinct reporter has just banned its partner's identity
C9_Witness ==
    /\ last.op = "report"
    /\ \E t \in LiveIdents : tempBans[t] = now + BAN_MS /\ reportVotes[t] = {}

\* C10: the report that brings a tally to the threshold clears the tally,
\* sets the ban to now + 24 h, sends reported_and_banned to the target and
\* closes it, and leaves the reporter unpaired; a connection whose disconnect
\* has been processed is in no queue, pairing, pending map (as receiver) or
\* identity map.
Day == 86400000
C10_BanAndForcedDisconnect ==
    [][ /\ ( /\ last'.op = "report" /\ Consented(last'.id) /\ Paired(last'.id)
             /\ Cardinality(reportVotes[identBySocket[partners[last'.id]]]
                             \cup {identBySocket[last'.id]}) >= REPORT_THRESHOLD )
           => LET p == partners[last'.id]
                  t == identBySocket[p]
              IN  /\ reportVotes'[t] = {}
                  /\ tempBans'[t] = now + Day
                  /\ Sent(outbox', p, "reported_and_banned") = 1
                  /\ conn'[p] \in {"closing", "closed"}
                  /\ partners'[last'.id] = None
        /\ \A x \in Sockets :
              conn'[x] = "closed"
              => /\ ~QueuedIn(queue', x)
                 /\ \A y \in Sockets : partners'[y] # x
                 /\ partners'[x] = None
                 /\ pendingPhotos'[x] = NoOffer
                 /\ pendingVideos'[x] = NoOffer
                 /\ identBySocket'[x] = NoIdent ]_vars
\* a report has just banned its target: the target was told, its disconnect
\* has been processed, and its identity is banned for a day from now
C10_Witness ==
    /\ last.op = "report"
    /\ partners[last.id] = None
    /\ \E p \in Sockets :
          /\ Sent(outbox, p, "reported_and_banned") = 1
          /\ conn[p] = "closed"
    /\ \E i \in LiveIdents : tempBans[i] = now + Day

\* C11: a connection whose identity has a ban that expires later than now is
\* sent banned and nothing else, is closed, keeps an uninitialised consent
\* flag and never has a handler run (so it is never consented, queued or
\* paired); a connection whose identity has no ban, or one that expires now or
\* earlier, is sent need_agree with agreed = false, and the check leaves no
\* ban entry for its identity.  No other ban entry changes in a connect step.
C11_BanCheckOnConnect ==
    [][ /\ last'.op = "connection"
           => LET id == last'.id
                  ident == identBySocket'[id]
              IN  /\ \A i \in LiveIdents \ {ident} : tempBans'[i] = tempBans[i]
                  /\ IF tempBans[ident] > now
                     THEN /\ outbox' = <<Ev(id, "banned")>>
                          /\ conn'[id] = "refused"
                          /\ agreed'[id] = "undefined"
                          /\ tempBans'[ident] = tempBans[ident]
                     ELSE /\ outbox' = <<Ev(id, "need_agree")>>
                          /\ conn'[id] = "open"
                          /\ agreed'[id] = "false"
                          /\ tempBans'[ident] = 0
        /\ \A s \in Sockets :
              conn[s] = "refused"
              => /\ conn'[s] = "refused"
                 /\ agreed'[s] = "undefined"
                 /\ ~QueuedIn(queue', s) /\ ~PairedIn(partners', s)
                 /\ Sent(outbox', s, "need_agree") = 0
                 /\ last'.id = s => last' = last ]_vars
\* after a ban was set and a ban period went by, a connection has arrived and
\* been let in, and its check has purged the expired entry: no ban is left
\* although the tally that led to the ban has been cleared
C11_Witness ==
    /\ last.op = "connection"
    /\ conn[last.id] = "open"
    /\ now > StartTime
    /\ \A i \in LiveIdents : tempBans[i] = 0 /\ reportVotes[i] = {}

\* C12: for photos and for videos alike, a valid offer from a consented,
\* paired sender stores sender and payload under the receiver's id, in place
\* of whatever was stored there, and touches no other entry; no other step
\* stores anything; an accept by a consented receiver with an offer stored
\* delivers exactly that payload, once, to the accepter and removes the offer;
\* an accept with nothing stored delivers nothing; no other step delivers.
Delivered(box, ev) == { i \in 1 .. Len(box) : box[i].ev = ev }
Exchange(pending, pendingNext, offer, accept, deliver, prefix) ==
    LET id == last'.id
        valid == /\ last'.op = offer /\ Consented(id) /\ Paired(id)
                 /\ last'.arg.type = "string" /\ StartsWith(last'.arg.chars, prefix)
    IN  /\ valid => pendingNext = [pending EXCEPT ![partners[id]] =
                                     [fromSocketId |-> id, dataUrl |-> last'.arg.chars]]
        /\ ~valid => \A r \in Sockets : pendingNext[r] \in {pending[r], NoOffer}
        /\ IF last'.op = accept /\ Consented(id) /\ pending[id] # NoOffer
           THEN /\ pendingNext[id] = NoOffer
                /\ Cardinality(Delivered(outbox', deliver)) = 1
                /\ \A i \in Delivered(outbox', deliver) :
                       outbox'[i].to = id /\ outbox'[i].data = pending[id].dataUrl
           ELSE Delivered(outbox', deliver) = {}
C12_PendingOffer ==
    [][ /\ Exchange(pendingPhotos, pendingPhotos', "photo_offer", "photo_accept",
                    "photo_deliver", IMG)
        /\ Exchange(pendingVideos, pendingVideos', "video_offer", "video_accept",
                    "video_deliver", VID) ]_vars
\* a receiver has just accepted a video: the second payload was delivered to
\* it and no offer is left under its id
C12_Witness ==
    /\ last.op = "video_accept"
    /\ outbox # <<>>
    /\ outbox[1] = EvData(last.id, "video_deliver", VID \o <<"b">>)
    /\ pendingVideos[last.id] = NoOffer

\* C13: a next by a consented connection tears down its pairing, with
\* partner_left sent to the former partner, and leaves the caller in exactly
\* one of queued and paired.  (The handler of server.js dequeues and unpairs,
\* then only sends the client a find event: the caller ends in neither.)
C13_NextReentersMatching ==
    [][ (last'.op = "next" /\ Consented(last'.id))
        => LET id == last'.id
               p == partners[id]
           IN  /\ p # None => partners'[p] = None /\ Sent(outbox', p, "partner_left") = 1
               /\ QueuedIn(queue', id) # PairedIn(partners', id) ]_vars

\* C14: a find by a consented connection that is neither paired nor queued
\* pairs it with the first queue entry that is not itself and not paired,
\* sends matched to both and to nobody else, and removes that entry and the
\* entries before it from the queue; when there is no such entry the caller
\* is appended to the queue and sent searching, and nobody is paired.
Eligible(id) == { i \in 1 .. Len(queue) : queue[i] # id /\ partners[queue[i]] = None }
C14_FifoMatch ==
    [][ (last'.op = "find" /\ Consented(last'.id) /\ ~Paired(last'.id) /\ ~InQueue(last'.id))
        => LET id == last'.id IN
           IF Eligible(id) # {}
           THEN LET j == CHOOSE i \in Eligible(id) : \A k \in Eligible(id) : i <= k
                    other == queue[j]
                IN  /\ partners' = [partners EXCEPT ![id] = other, ![other] = id]
                    /\ queue' = SubSeq(queue, j + 1, Len(queue))
                    /\ Len(outbox') = 2
                    /\ Sent(outbox', id, "matched") = 1
                    /\ Sent(outbox', other, "matched") = 1
           ELSE /\ queue' = Append(queue, id)
                /\ partners' = partners
                /\ outbox' = <<Ev(id, "searching")>> ]_vars
\* a find has just matched the caller with the connection that was waiting
C14_Witness ==
    /\ last.op = "find"
    /\ Paired(last.id)
    /\ queue = <<>>
    /\ outbox = <<Ev(last.id, "matched"), Ev(partners[last.id], "matched")>>

\* C15: a report by a consented, paired reporter, with both identities known,
\* leaves neither the reporter nor the target in the partner registry and
\* sends partner_left once to each of them and to nobody else, whether or not
\* the report reaches the threshold.
C15_ReportTearsDown ==
    [][ ( /\ last'.op = "report" /\ Consented(last'.id) /\ Paired(last'.id)
          /\ identBySocket[last'.id] # NoIdent
          /\ identBySocket[partners[last'.id]] # NoIdent )
        => LET id == last'.id
               p == partners[id]
           IN  /\ partners'[id] = None
               /\ partners'[p] = None
               /\ \A x \in Sockets : partners'[x] \notin {id, p}
               /\ \A x \in Sockets :
                     Sent(outbox', x, "partner_left") = IF x \in {id, p} THEN 1 ELSE 0 ]_vars
\* a report below the threshold has just ended the chat: both sides were told
\* and nobody was banned
C15_Witness ==
    /\ last.op = "report"
    /\ \E p \in Sockets \ {last.id} :
          outbox = <<Ev(last.id, "report_received"), Ev(p, "partner_left"),
                     Ev(last.id, "partner_left")>>
    /\ \A i \in LiveIdents : tempBans[i] = 0
    /\ \E i \in LiveIdents : reportVotes[i] # {}

\* C16: a connection that was refused because its identity is banned is in no
\* shared map: not in the identity map, the queue, the partner registry or a
\* pending-media map, then and ever after.  (The connection callback records
\* the identity before the ban check and a refused connection gets no
\* disconnect handler, so its identity entry stays.)
C16_RefusedLeavesNoState ==
    \A s \in Sockets :
        conn[s] = "refused"
        => /\ identBySocket[s] = NoIdent
           /\ ~InQueue(s)
           /\ \A x \in Sockets : partners[x] # s
           /\ partners[s] = None
           /\ pendingPhotos[s] = NoOffer /\ pendingVideos[s] = NoOffer
           /\ \A x \in Sockets : /\ pendingPhotos[x].fromSocketId # s
                                 /\ pendingVideos[x].fromSocketId # s

\* C17 (as stated): a consented photo or video accept or decline with no offer
\* stored under the caller's id, and a consented stop by a caller that is
\* neither paired nor queued, change no shared state and emit nothing.
StaleAnswer(id) ==
    \/ (last'.op \in {"photo_accept", "photo_decline"} /\ pendingPhotos[id] = NoOffer)
    \/ (last'.op \in {"video_accept", "video_decline"} /\ pendingVideos[id] = NoOffer)
StaleStop(id) == last'.op = "stop" /\ ~Paired(id) /\ ~InQueue(id)
C17_StaleSilent ==
    [][ (Consented(last'.id) /\ (StaleAnswer(last'.id) \/ StaleStop(last'.id)))
        => UNCHANGED shared /\ outbox' = <<>> ]_vars
\* C17 (amended): the same actions change no shared state; the stale accept
\* or decline emits nothing, and the stale stop emits exactly one event,
\* stopped, to the caller.
C17_StaleNoChange ==
    [][ /\ (Consented(last'.id) /\ StaleAnswer(last'.id))
           => UNCHANGED shared /\ outbox' = <<>>
        /\ (Consented(last'.id) /\ StaleStop(last'.id))
           => UNCHANGED shared /\ outbox' = <<Ev(last'.id, "stopped")>> ]_vars
\* a connection that was neither paired nor queued has just sent stop while
\* another one was waiting in the queue: it was answered stopped, and the
\* other is still waiting
C17_Witness ==
    /\ last.op = "stop"
    /\ outbox = <<Ev(last.id, "stopped")>>
    /\ \E x \in Sockets \ {last.id} : queue = <<x>>

\* C18: for every offer stored in either pending map, the receiver (its key)
\* and the sender are connected and are partners.  (Offers are deleted only
\* by the receiver's accept, decline or disconnect: a stop, a report or the
\* sender's disconnect ends the pairing and leaves the offer.)
C18_NoOrphanedOffers ==
    \A r \in Sockets :
        \A offer \in {pendingPhotos[r], pendingVideos[r]} :
            offer # NoOffer
            => /\ conn[r] = "open"
               /\ conn[offer.fromSocketId] = "open"
               /\ partners[r] = offer.fromSocketId

\* C19: the queue never holds more than one connection id, and every queued
\* id is connected and unpaired; so a find by a consented connection that is
\* neither paired nor queued, on a non-empty queue, meets a head entry that is
\* not empty, not the caller and not paired (no skip branch is taken), pairs
\* the caller with it and leaves the queue empty.
C19_QueueAtMostOne ==
    [][ /\ Len(queue') <= 1
        /\ \A i \in 1 .. Len(queue') :
              /\ queue'[i] # None
              /\ conn'[queue'[i]] = "open"
              /\ partners'[queue'[i]] = None
        /\ ( /\ last'.op = "find" /\ Consented(last'.id)
             /\ ~Paired(last'.id) /\ ~InQueue(last'.id) /\ queue # <<>> )
           => /\ Head(queue) \notin {None, last'.id}
              /\ partners[Head(queue)] = None
              /\ partners'[last'.id] = Head(queue)
              /\ queue' = <<>> ]_vars
\* a find has just paired the caller with the only waiting connection while a
\* third, consented connection is idle
C19_Witness ==
    /\ last.op = "find"
    /\ Paired(last.id)
    /\ queue = <<>>
    /\ \E x \in Sockets : conn[x] = "open" /\ agreed[x] = "true" /\ ~Paired(x)

\* C20: every connection id in the queue, and every key and value of the
\* partner registry, belongs to a connection that is connected, has agreed and
\* has an entry in the identity map.
Live(s) == conn[s] = "open" /\ agreed[s] = "true" /\ identBySocket[s] # NoIdent
C20_NoStaleIds ==
    /\ \A i \in 1 .. Len(queue) : queue[i] \in Sockets /\ Live(queue[i])
    /\ \A s \in Sockets :
          partners[s] # None => Live(s) /\ partners[s] \in Sockets /\ Live(partners[s])
\* after a ban closed one connection, two others are paired
C20_Witness ==
    /\ \E i \in LiveIdents : tempBans[i] > now
    /\ \E s \in Sockets : conn[s] = "closed"
    /\ \E a, b \in Sockets : a # b /\ partners[a] = b
====
